---- MODULE Spec2Model ----
(***************************************************************************)
(* Model of vispy's force-directed layout engine                           *)
(* (vispy/visuals/graphs/layouts/force_directed.py, class                  *)
(* fruchterman_reingold) and of AxisWidget.link_view                       *)
(* (vispy/scene/widgets/axis.py).                                          *)
(*                                                                         *)
(* Numbers.  The temperature is a rational <<num, den>> in lowest terms.   *)
(* The optimal distance 1/sqrt(N) is irrational in general, so a           *)
(* non-negative real x that stands for a distance is represented by the    *)
(* rational x*x; the representation is injective on the non-negative       *)
(* reals, so two distances are equal iff their representations are.        *)
(*                                                                         *)
(* Arrays.  A numpy array is a buffer: a generator frame owns the list     *)
(* bufs of the buffers it allocated, and a reference to an array is an     *)
(* index into that list.  The floating-point contents of a position        *)
(* buffer are represented by the term that computed them: the number of    *)
(* rows and the history hist of the in-place updates applied to the        *)
(* random start (a "move" carries the optimal distance and the             *)
(* temperature that scaled it, "rescale" is rescale_layout).               *)
(*                                                                         *)
(* Optional values (Python's None) are sets: {} is None, {v} is v.         *)
(*                                                                         *)
(* Scope.  The engine is constructed with pos=None (random initial         *)
(* positions); the dtype string 'f32' is read as float32; the edge and     *)
(* arrow vertices of a snapshot are fresh arrays derived from pos and are  *)
(* not modelled.  rescale_layout and the event emitter's connect and       *)
(* disconnect live outside the modelled files: rescale_layout either       *)
(* works in place or returns a new array (both are explored), connect      *)
(* appends a handler and disconnect removes it.                            *)
(***************************************************************************)
EXTENDS Integers, Sequences, FiniteSets, TLC

\* ------------------------------------------------------------- bounds
MaxIter == 2        \* iterations is drawn from 1..MaxIter
MaxSmallN == 2      \* small node counts 1..MaxSmallN
NumViews == 2       \* ViewBoxes an AxisWidget can be linked to
MaxCoord == 1       \* a view transform maps the axis ends into (0..MaxCoord)^2

\* ------------------------------------------------- program constants
SolverThreshold == 500   \* if self.num_nodes < 500

\* --------------------------------------------------------- rationals
RECURSIVE GCD(_, _)
GCD(a, b) == IF b = 0 THEN a ELSE GCD(b, a % b)

Abs(x) == IF x < 0 THEN -x ELSE x

\* n/d in lowest terms with a positive denominator
Rat(n, d) ==
    LET g == GCD(Abs(n), Abs(d))
        s == IF d < 0 THEN -1 ELSE 1
    IN  <<(s * n) \div g, (s * d) \div g>>

RatSub(x, y) == Rat(x[1] * y[2] - y[1] * x[2], x[2] * y[2])
RatDivInt(x, k) == Rat(x[1], x[2] * k)
RatLess(x, y) == x[1] * y[2] < y[1] * x[2]
RatLeq(x, y) == x[1] * y[2] <= y[1] * x[2]
Zero == Rat(0, 1)

\* ------------------------------------------------------------ inputs
NodeCounts == (1..MaxSmallN) \cup {SolverThreshold - 1, SolverThreshold}
Forms == {"dense", "sparse"}    \* numpy ndarray / scipy.sparse matrix
AdjacencyMatrices == [shape : NodeCounts \X NodeCounts, form : Forms]
\* two computations are started from the one engine and pulled in any order
Computations == {1, 2}
\* optimal as passed to __init__: None, or the distance 1/2 (square 1/4)
OptimalArgs == {{}, {Rat(1, 4)}}
Orientations == {"left", "bottom"}
Views == 1..NumViews
Coords == 0..MaxCoord

VARIABLES
    self,           \* the engine object: optimal, iterations, num_nodes, pos
    init_optimal,   \* the optimal argument __init__ received
    gen,            \* the generator frames created by __call__, in call order
    received,       \* per generator, the snapshots the consumer pulled and kept
    rescale_in_place, \* whether rescale_layout returns the array it was given
    linked_view,    \* AxisWidget._linked_view, per widget (keyed by orientation)
    callbacks,      \* per view, the handlers on view.scene.transform.changed
    transform,      \* per view, where its scene transform maps the axis ends
    domain,         \* AxisWidget.axis.domain, per widget
    last_linked     \* per widget, the arguments of its latest two link_view calls

layout_vars == <<self, init_optimal, gen, received, rescale_in_place>>
axis_vars == <<linked_view, callbacks, transform, domain, last_linked>>
vars == <<self, init_optimal, gen, received, rescale_in_place,
          linked_view, callbacks, transform, domain, last_linked>>

\* ------------------------------------------------ the layout engine
\* optimal = 1 / np.sqrt(self.num_nodes), as the square of the distance
InvSqrt(n) == Rat(1, n)

\* faulty variant: the check compares the row count with itself
IsSquareRowsOnly(adjacency_mat) ==
    adjacency_mat.shape[1] = adjacency_mat.shape[1]

\* adjacency_mat.shape[0] != adjacency_mat.shape[1] is the error case
IsSquare(adjacency_mat) == adjacency_mat.shape[1] = adjacency_mat.shape[2]

\* faulty variant: <= for <
ChooseSolverInclusive(num_nodes) ==
    IF num_nodes <= SolverThreshold THEN "sparse" ELSE "dense"

\* if self.num_nodes < 500: sparse solver, else the other one
ChooseSolver(num_nodes) ==
    IF num_nodes < SolverThreshold THEN "sparse" ELSE "dense"

\* t = 0.1
InitialTemperature == Rat(1, 10)

\* faulty variant: the + 1 is forgotten
CoolingStepNoPlusOne(t, iterations) == RatDivInt(t, iterations)

\* dt = t / float(self.iterations+1)
CoolingStep(t, iterations) == RatDivInt(t, iterations + 1)

\* t -= dt
Cool(t, dt) == RatSub(t, dt)

\* numpy broadcasting of an (m, 2) operand into an (n, 2) array in place
BroadcastsTo(m, n) == m = n \/ m = 1

\* for result in solver(adjacency_mat, directed): yield result
Forward(result) == result

The(s) == CHOOSE x \in s : TRUE

\* the frame of a generator the call just created: no line of the body has run
Frame(adjacency_mat) ==
    [pc |-> "created", adjacency_mat |-> adjacency_mat, solver |-> "none",
     pos |-> 0, bufs |-> <<>>, t |-> {}, dt |-> {}, iteration |-> 0,
     displacement |-> {}, delta |-> {}, yielded |-> <<>>, err |-> ""]

\* an exception leaves the generator: it is finished and nothing is yielded
Raise(eng, fr, exc) ==
    [self |-> eng, frame |-> [fr EXCEPT !.pc = "raised", !.err = exc],
     out |-> <<>>]

\* yield pos, line_vertices, arrows: the snapshot refers to the array pos
Yield(eng, fr, at) ==
    [self |-> eng,
     frame |-> [fr EXCEPT !.pc = at, !.yielded = Append(@, [pos |-> fr.pos])],
     out |-> <<[pos |-> fr.pos]>>]

\* the loop is over: the generator returns (StopIteration)
Return(eng, fr) ==
    [self |-> eng, frame |-> [fr EXCEPT !.pc = "done"], out |-> <<>>]

\* if self.optimal is None: self.optimal = 1 / np.sqrt(self.num_nodes)
DefaultOptimal(eng) ==
    IF eng.optimal = {}
    THEN [eng EXCEPT !.optimal = {InvSqrt(The(eng.num_nodes))}]
    ELSE eng

\* self.pos is None: np.random.random((self.num_nodes, self.dim))
InitialPositions(eng) == [rows |-> The(eng.num_nodes), hist |-> <<>>]

Move(optimal, t) == [op |-> "move", optimal |-> optimal, t |-> t]
Rescaled == [op |-> "rescale", optimal |-> Rat(0, 1), t |-> Rat(0, 1)]

\* pos += delta_pos: the array pos refers to is updated in place
MoveInPlace(fr, optimal, t) ==
    [fr EXCEPT !.bufs[fr.pos].hist = Append(@, Move(optimal, t))]

\* pos = rescale_layout(pos): in place, or into a new array
rescale_layout(fr, in_place) ==
    IF in_place
    THEN [fr EXCEPT !.bufs[fr.pos].hist = Append(@, Rescaled)]
    ELSE [fr EXCEPT
            !.bufs = Append(@, [fr.bufs[fr.pos] EXCEPT
                                   !.hist = Append(@, Rescaled)]),
            !.pos = Len(fr.bufs) + 1]

\* update positions, rescale, cool, yield: the tail of one loop iteration
Advance(eng, fr, in_place) ==
    LET moved == MoveInPlace(fr, The(eng.optimal), The(fr.t))
        scaled == rescale_layout(moved, in_place)
        cooled == [scaled EXCEPT !.t = {Cool(The(fr.t), The(fr.dt))},
                                 !.iteration = @ + 1]
    IN  Yield(eng, cooled, "loop")

\* _sparse_fruchterman_reingold, from one suspension point to the next
sparse_fruchterman_reingold(eng, fr, in_place) ==
    IF fr.pc = "created"
    THEN LET eng1 == DefaultOptimal(eng) IN
         IF fr.adjacency_mat.form # "sparse"
         THEN Raise(eng1, fr, "AttributeError")   \* ndarray has no tolil()
         ELSE Yield(eng1,
                    [fr EXCEPT !.bufs = Append(@, InitialPositions(eng1)),
                               !.pos = Len(fr.bufs) + 1],
                    "yield0")
    ELSE LET fr1 == IF fr.pc = "yield0"
                    THEN [fr EXCEPT
                            !.t = {InitialTemperature},
                            !.dt = {CoolingStep(InitialTemperature,
                                                eng.iterations)},
                            !.displacement = eng.num_nodes]
                    ELSE fr
             cols == The(fr1.displacement)
         IN  IF ~(fr1.iteration < eng.iterations)
             THEN Return(eng, fr1)
             ELSE IF fr1.adjacency_mat.shape[1] > cols
             THEN Raise(eng, fr1, "IndexError")   \* displacement[:, i]
             ELSE IF ~BroadcastsTo(cols, fr1.bufs[fr1.pos].rows)
             THEN Raise(eng, fr1, "ValueError")   \* pos += (...).T
             ELSE Advance(eng, fr1, in_place)

\* _fruchterman_reingold, from one suspension point to the next
fruchterman_reingold(eng, fr, in_place) ==
    IF fr.pc = "created"
    THEN LET eng1 == DefaultOptimal(eng) IN
         Yield(eng1,
               [fr EXCEPT !.bufs = Append(@, InitialPositions(eng1)),
                          !.pos = Len(fr.bufs) + 1],
               "yield0")
    ELSE LET fr1 == IF fr.pc = "yield0"
                    THEN [fr EXCEPT
                            !.t = {InitialTemperature},
                            !.dt = {CoolingStep(InitialTemperature,
                                                eng.iterations)},
                            !.delta = {fr.bufs[fr.pos].rows}]
                    ELSE fr
         IN  IF ~(fr1.iteration < eng.iterations)
             THEN Return(eng, fr1)
             ELSE Advance(eng, fr1, in_place)

\* __call__, from one suspension point to the next (one next() of the caller)
call(eng, fr, in_place) ==
    IF fr.pc = "created"
    THEN IF ~IsSquare(fr.adjacency_mat)
         THEN Raise(eng, fr, "ValueError")
         ELSE LET n == fr.adjacency_mat.shape[1]
                  eng1 == [eng EXCEPT !.num_nodes = {n}]
                  fr1 == [fr EXCEPT !.solver = ChooseSolver(n)]
                  r == IF fr1.solver = "sparse"
                       THEN sparse_fruchterman_reingold(eng1, fr1, in_place)
                       ELSE fruchterman_reingold(eng1, fr1, in_place)
              IN  [r EXCEPT !.out = Forward(r.out)]
    ELSE LET r == IF fr.solver = "sparse"
                  THEN sparse_fruchterman_reingold(eng, fr, in_place)
                  ELSE fruchterman_reingold(eng, fr, in_place)
         IN  [r EXCEPT !.out = Forward(r.out)]

\* what the consumer keeps of a snapshot: the reference, and (for the
\* properties) the values the array held when the snapshot was handed over
Keep(fr, out) ==
    [i \in 1..Len(out) |-> [pos |-> out[i].pos, seen |-> fr.bufs[out[i].pos]]]

\* ------------------------------------------------------- AxisWidget
\* view.scene.transform.changed.connect(callback)
connect(cbs, cb) == Append(cbs, cb)

\* view.scene.transform.changed.disconnect(callback)
disconnect(cbs, cb) ==
    IF \E i \in 1..Len(cbs) : cbs[i] = cb
    THEN LET k == CHOOSE i \in 1..Len(cbs) :
                    cbs[i] = cb /\ \A j \in 1..(i - 1) : cbs[j] # cb
         IN  [i \in 1..(Len(cbs) - 1) |-> IF i < k THEN cbs[i] ELSE cbs[i + 1]]
    ELSE cbs

\* _view_changed: the domain is the mapped axis ends' y (left) or x (bottom)
view_changed(w, view, tr) ==
    IF w \in {"left", "right"} THEN tr[view][2] ELSE tr[view][1]

\* --------------------------------------------------------- the system
LayoutInit ==
    /\ init_optimal \in OptimalArgs
    /\ \E it \in 1..MaxIter :
         self = [optimal |-> init_optimal, iterations |-> it,
                 num_nodes |-> {}, pos |-> {}]
    /\ gen = <<>>
    /\ received = <<>>
    /\ rescale_in_place \in BOOLEAN

AxisInit ==
    /\ linked_view = [w \in Orientations |-> {}]
    /\ callbacks = [v \in Views |-> <<>>]
    /\ transform = [v \in Views |-> <<0, 0>>]
    /\ domain = [w \in Orientations |-> {}]
    /\ last_linked = [w \in Orientations |-> <<>>]

\* layout = engine(adjacency_mat): a generator object, none of its code run
Call(adjacency_mat) ==
    /\ Len(gen) + 1 \in Computations
    /\ gen' = Append(gen, Frame(adjacency_mat))
    /\ received' = Append(received, <<>>)
    /\ UNCHANGED <<self, init_optimal, rescale_in_place, axis_vars>>

\* next(layout)
Pull(g) ==
    /\ gen[g].pc \in {"created", "yield0", "loop"}
    /\ LET r == call(self, gen[g], rescale_in_place) IN
         /\ self' = r.self
         /\ gen' = [gen EXCEPT ![g] = r.frame]
         /\ received' = [received EXCEPT ![g] = @ \o Keep(r.frame, r.out)]
    /\ UNCHANGED <<init_optimal, rescale_in_place, axis_vars>>

Next ==
    \/ \E a \in AdjacencyMatrices : Call(a)
    \/ \E g \in DOMAIN gen : Pull(g)

Init == LayoutInit /\ AxisInit

Spec == Init /\ [][Next]_vars

\* the latest two link_view arguments, the newest last
Latest(args, view) ==
    IF args = <<>> THEN <<view>> ELSE <<args[Len(args)], view>>

\* faulty variant: the previously linked view is not disconnected
link_view_keeps_old(w, view) ==
    /\ last_linked' = [last_linked EXCEPT ![w] = Latest(@, view)]
    /\ IF linked_view[w] = {view}
       THEN UNCHANGED <<linked_view, callbacks, domain>>
       ELSE /\ linked_view' = [linked_view EXCEPT ![w] = {view}]
            /\ callbacks' = [callbacks EXCEPT ![view] = connect(@, w)]
            /\ domain' = [domain EXCEPT
                            ![w] = {view_changed(w, view, transform)}]
    /\ UNCHANGED <<transform, layout_vars>>

\* AxisWidget.link_view(view) on the widget w
link_view(w, view) ==
    /\ last_linked' = [last_linked EXCEPT ![w] = Latest(@, view)]
    /\ IF linked_view[w] = {view}
       THEN UNCHANGED <<linked_view, callbacks, domain>>
       ELSE LET cbs1 == IF linked_view[w] # {}
                        THEN [callbacks EXCEPT ![The(linked_view[w])] =
                                                  disconnect(@, w)]
                        ELSE callbacks
            IN  /\ linked_view' = [linked_view EXCEPT ![w] = {view}]
                /\ callbacks' = [cbs1 EXCEPT ![view] = connect(@, w)]
                /\ domain' = [domain EXCEPT
                                ![w] = {view_changed(w, view, transform)}]
    /\ UNCHANGED <<transform, layout_vars>>

\* the scene transform of a view changes and its changed event is emitted:
\* every connected handler runs _view_changed of its widget
TransformChanged(view, to) ==
    /\ transform[view] # to
    /\ transform' = [transform EXCEPT ![view] = to]
    /\ domain' = [w \in Orientations |->
                    IF \E i \in 1..Len(callbacks[view]) : callbacks[view][i] = w
                    THEN {view_changed(w, The(linked_view[w]), transform')}
                    ELSE domain[w]]
    /\ UNCHANGED <<linked_view, callbacks, last_linked, layout_vars>>

AxisNext ==
    \/ \E w \in Orientations, view \in Views : link_view(w, view)
    \/ \E view \in Views, to \in Coords \X Coords : TransformChanged(view, to)

\* the widget alone: an engine as constructed by default, never called
AxisOnlyInit ==
    /\ AxisInit
    /\ LayoutInit
    /\ init_optimal = {}
    /\ self.iterations = 1
    /\ rescale_in_place

AxisSpec == AxisOnlyInit /\ [][AxisNext]_vars

\* ------------------------------------------------------- properties
NonSquare(fr) == fr.adjacency_mat.shape[1] # fr.adjacency_mat.shape[2]
Rows(fr) == fr.adjacency_mat.shape[1]
IsMove(x) == x.op = "move"
\* the moves that produced the positions the frame's pos refers to now
Moves(fr) == IF fr.pos = 0 THEN <<>> ELSE SelectSeq(fr.bufs[fr.pos].hist, IsMove)
\* 0.1 - k * (0.1 / (n + 1)), computed directly
TemperatureAfter(k, n) == Rat(n + 1 - k, 10 * (n + 1))
Count(cbs, w) == Cardinality({i \in 1..Len(cbs) : cbs[i] = w})

\* C1: a non-square adjacency never gets a snapshot: its computation fails
\* with the shape error (ValueError) before a solver is chosen or run and
\* before anything is yielded.
C1_NonSquareNeverEmits ==
    \A g \in DOMAIN gen :
        NonSquare(gen[g]) =>
            /\ received[g] = <<>>
            /\ gen[g].yielded = <<>>
            /\ gen[g].solver = "none"
            /\ gen[g].bufs = <<>>
            /\ gen[g].pc \in {"created", "raised"}
            /\ gen[g].pc = "raised" => gen[g].err = "ValueError"

C1_Witness ==
    \E g \in DOMAIN gen :
        /\ gen[g].adjacency_mat.shape = <<1, 2>>
        /\ gen[g].pc = "raised"
        /\ gen[g].err = "ValueError"
        /\ received[g] = <<>>

\* C2: every square adjacency, dense or sparse, with a positive iteration
\* budget yields exactly iterations + 1 snapshots and then ends.
C2_ExactlyIterationsPlusOne ==
    \A g \in DOMAIN gen :
        ~NonSquare(gen[g]) =>
            /\ Len(received[g]) <= self.iterations + 1
            /\ gen[g].pc \in {"done", "raised"} =>
                   /\ gen[g].pc = "done"
                   /\ Len(received[g]) = self.iterations + 1

\* C3: a snapshot the consumer kept still holds the positions it held when
\* it was pulled, whatever was pulled after it.
C3_RetainedSnapshotsUnchanged ==
    \A g \in DOMAIN gen :
        \A k \in DOMAIN received[g] :
            gen[g].bufs[received[g][k].pos] = received[g][k].seen

\* the same computation pulled to its end alone, on an engine as constructed
RECURSIVE RunAlone(_, _, _)
RunAlone(eng, fr, seen) ==
    IF fr.pc \in {"done", "raised"}
    THEN [pc |-> fr.pc, err |-> fr.err, seen |-> seen]
    ELSE LET r == call(eng, fr, rescale_in_place)
             kept == Keep(r.frame, r.out)
         IN  RunAlone(r.self, r.frame,
                      seen \o [i \in 1..Len(kept) |-> kept[i].seen])

Alone(adjacency_mat) ==
    RunAlone([optimal |-> init_optimal, iterations |-> self.iterations,
              num_nodes |-> {}, pos |-> {}],
             Frame(adjacency_mat), <<>>)

\* C4: two computations pulled in any interleaving each emit what they
\* would emit run alone from the same starting positions, and end the
\* same way.
C4_Isolated ==
    \A g \in DOMAIN gen :
        LET alone == Alone(gen[g].adjacency_mat) IN
            /\ Len(received[g]) <= Len(alone.seen)
            /\ \A k \in DOMAIN received[g] : received[g][k].seen = alone.seen[k]
            /\ gen[g].pc \in {"done", "raised"} =>
                   /\ gen[g].pc = alone.pc
                   /\ gen[g].err = alone.err
                   /\ Len(received[g]) = Len(alone.seen)

C6_OptimalIsInvSqrtOwnN ==
    init_optimal = {} =>
        \A g \in DOMAIN gen :
            \A k \in DOMAIN Moves(gen[g]) :
                Moves(gen[g])[k].optimal = Rat(1, Rows(gen[g]))

\* C7 as stated: the call itself fails, so no sequence object exists whose
\* shape failure is still to come.
C7_FailsAtTheCall ==
    \A g \in DOMAIN gen : NonSquare(gen[g]) => gen[g].pc # "created"

\* C7: a call with a non-square adjacency returns a sequence object without
\* running any code; the first pull on that object raises the shape error,
\* yields nothing and leaves the engine untouched.
C7_ShapeErrorAtFirstPull ==
    [][ /\ \A g \in DOMAIN gen' \ DOMAIN gen : gen'[g].pc = "created"
        /\ \A g \in DOMAIN gen :
               (NonSquare(gen[g]) /\ gen[g].pc = "created"
                                  /\ gen'[g].pc # "created") =>
                   /\ gen'[g].pc = "raised"
                   /\ gen'[g].err = "ValueError"
                   /\ received'[g] = <<>>
                   /\ self' = self ]_vars

C7_Witness ==
    \E g \in DOMAIN gen :
        /\ NonSquare(gen[g])
        /\ gen[g].pc = "raised"
        /\ self.num_nodes = {}

\* C8: the solver is chosen by the node count alone (sparse below 500,
\* dense from 500 on), and the consumer receives exactly the snapshots the
\* solver yielded, in order.
C8_SelectorByNodeCount ==
    \A g \in DOMAIN gen :
        /\ (~NonSquare(gen[g]) /\ gen[g].pc # "created") =>
               gen[g].solver = IF Rows(gen[g]) < 500 THEN "sparse" ELSE "dense"
        /\ Len(received[g]) = Len(gen[g].yielded)
        /\ \A k \in DOMAIN received[g] :
               received[g][k].pos = gen[g].yielded[k].pos

C8_Witness ==
    \E g, h \in DOMAIN gen :
        /\ Rows(gen[g]) = 499 /\ gen[g].solver = "sparse"
        /\ Rows(gen[h]) = 500 /\ gen[h].solver = "dense"
        /\ Len(received[g]) >= 2
        /\ Len(received[h]) >= 2

\* C9: the temperature that scales the displacement in the final iteration
\* equals dt = 0.1 / (iterations + 1).
C9_LastIterationIsSizeDt ==
    \A g \in DOMAIN gen :
        (gen[g].t # {} /\ gen[g].iteration = self.iterations) =>
            Moves(gen[g])[Len(Moves(gen[g]))].t
                = Rat(1, 10 * (self.iterations + 1))

\* C10: once link_view has been called on a widget, its handler is connected
\* exactly once to the changed signal of the view passed to the latest call
\* and to no other view's.
C10_ConnectedToLatestViewOnly ==
    \A w \in Orientations :
        last_linked[w] # <<>> =>
            \A v \in Views :
                Count(callbacks[v], w) =
                    IF v = last_linked[w][Len(last_linked[w])] THEN 1 ELSE 0

C10_Witness ==
    \E w, x \in Orientations :
        /\ w # x
        /\ last_linked[w] = <<1, 2>>
        /\ last_linked[x] = <<2, 2>>
        /\ callbacks[2] = <<x, w>>
        /\ callbacks[1] = <<>>

====
